---- MODULE Spec2Model ----
(***************************************************************************)
(* A model of the path tracer lodetrick/raytracing-rust.                   *)
(*                                                                         *)
(*   - Camera::initialize and Camera::render_parallel (src/camera.rs):     *)
(*     the dispatcher that spawns one worker per column stripe, the        *)
(*     workers that send pixels on an mpsc channel, and the collector      *)
(*     that writes them to the image buffer and saves it (Spec).           *)
(*   - Sphere::hit, Intersection::set_face_normal and HittableList::hit    *)
(*     (src/raycasting.rs), applied to bounded rays and worlds (SpecHit).  *)
(*   - Metal::new and Dielectric::scatter (src/materials.rs), applied to   *)
(*     bounded arguments (SpecMaterial).                                   *)
(*                                                                         *)
(* f64 values are modelled as exact rationals <<n, d>> in lowest terms     *)
(* with d >= 0; <<1, 0>> is +infinity. The inputs are chosen so that every *)
(* square root the code takes is rational.                                 *)
(***************************************************************************)
EXTENDS Integers, Sequences, FiniteSets, Bags, TLC

VARIABLES
    camera,     \* the Camera after initialize(): user fields and derived fields
    world,      \* HittableList.objects: a sequence of spheres
    main,       \* the thread running render_parallel: [pc, i]
    workers,    \* the spawned stripe threads: worker index -> [st, curr, next, x, y]
    tx,         \* TRUE while the dispatcher still holds the original Sender
    chan,       \* the channel: the bag of messages sent and not yet received
    imgbuf,     \* the RgbImage: <<x, y>> -> pixel value
    sends,      \* history: the bag of every <<worker, x, y, pixel>> ever sent
    saved,      \* the image file imgbuf.save writes: [written, image]
    ray,        \* the Ray handed to hit / scatter: [orig, dir]
    t_range,    \* the caller's Range<f64>: [start, end]
    rec,        \* the caller's Intersection record
    prev_rec,   \* history: the record as it was before the last hit call
    res,        \* the last call and what it returned
    mat,        \* the material under construction / in use
    draw,       \* the value rng.random_double() returns in scatter
    scattered   \* what scatter returned: "none" or [dir, attenuation]

render_vars == <<camera, main, workers, tx, chan, imgbuf, sends, saved>>
hit_vars == <<ray, t_range, rec, prev_rec, res>>
mat_vars == <<mat, draw, scattered>>
vars == <<render_vars, world, hit_vars, mat_vars>>

(***************************************************************************)
(* f64 as exact rationals                                                  *)
(***************************************************************************)
Abs(n) == IF n < 0 THEN -n ELSE n

RECURSIVE GCD(_, _)
GCD(a, b) == IF b = 0 THEN a ELSE GCD(b, a % b)

\* the rational n/d in lowest terms, the sign on the numerator
QNorm(n, d, g) ==
    IF g = 0 THEN <<0, 0>>
    ELSE IF d < 0 THEN <<-(n \div g), -(d \div g)>> ELSE <<n \div g, d \div g>>

Q(n, d) == QNorm(n, d, GCD(Abs(n), Abs(d)))

QInt(n) == <<n, 1>>
QInf == <<1, 0>>
\* sums and comparisons go through the common denominator (g the gcd of
\* the two denominators), which keeps the integers small
QAddG(p, q, g) ==
    IF g = 0 THEN Q(p[1] * q[2] + q[1] * p[2], p[2] * q[2])
    ELSE Q(p[1] * (q[2] \div g) + q[1] * (p[2] \div g), (p[2] \div g) * q[2])
QAdd(p, q) == QAddG(p, q, GCD(p[2], q[2]))
QNeg(p) == <<-p[1], p[2]>>
QSub(p, q) == QAdd(p, QNeg(q))
QMul(p, q) == Q(p[1] * q[1], p[2] * q[2])
QDiv(p, q) == Q(p[1] * q[2], p[2] * q[1])
QLtG(p, q, g) ==
    IF g = 0 THEN p[1] < q[1] ELSE p[1] * (q[2] \div g) < q[1] * (p[2] \div g)
QLt(p, q) == QLtG(p, q, GCD(p[2], q[2]))
QLe(p, q) == ~QLt(q, p)
QMin(p, q) == IF QLt(q, p) THEN q ELSE p
QAbs(p) == <<Abs(p[1]), p[2]>>

\* the integer square root of n >= 0, by bisection of lo..hi
RECURSIVE ISqrtIn(_, _, _)
ISqrtIn(n, lo, hi) ==
    IF lo >= hi THEN lo
    ELSE IF ((lo + hi + 1) \div 2) * ((lo + hi + 1) \div 2) <= n
         THEN ISqrtIn(n, (lo + hi + 1) \div 2, hi)
         ELSE ISqrtIn(n, lo, ((lo + hi + 1) \div 2) - 1)

ISqrt(n) == ISqrtIn(n, 0, IF n < 46340 THEN n ELSE 46340)
IsSquare(n) == n >= 0 /\ ISqrt(n) * ISqrt(n) = n
QIsSquare(p) == IsSquare(p[1]) /\ IsSquare(p[2])
\* f64::sqrt on the values the model feeds it
QSqrt(p) == <<ISqrt(p[1]), ISqrt(p[2])>>

RECURSIVE QPowi(_, _)
QPowi(p, n) == IF n = 0 THEN QInt(1) ELSE QMul(p, QPowi(p, n - 1))

(***************************************************************************)
(* cgmath::Vector3<f64>                                                    *)
(***************************************************************************)
Vec3(x, y, z) == <<QInt(x), QInt(y), QInt(z)>>
VAdd(u, v) == <<QAdd(u[1], v[1]), QAdd(u[2], v[2]), QAdd(u[3], v[3])>>
VSub(u, v) == <<QSub(u[1], v[1]), QSub(u[2], v[2]), QSub(u[3], v[3])>>
VNeg(u) == <<QNeg(u[1]), QNeg(u[2]), QNeg(u[3])>>
VScale(u, k) == <<QMul(u[1], k), QMul(u[2], k), QMul(u[3], k)>>
VDivS(u, k) == <<QDiv(u[1], k), QDiv(u[2], k), QDiv(u[3], k)>>
Dot(u, v) == QAdd(QAdd(QMul(u[1], v[1]), QMul(u[2], v[2])), QMul(u[3], v[3]))
Cross(u, v) == <<QSub(QMul(u[2], v[3]), QMul(u[3], v[2])),
                 QSub(QMul(u[3], v[1]), QMul(u[1], v[3])),
                 QSub(QMul(u[1], v[2]), QMul(u[2], v[1]))>>
Magnitude2(u) == Dot(u, u)
Normalize(u) == VDivS(u, QSqrt(Magnitude2(u)))
VZero == Vec3(0, 0, 0)

(***************************************************************************)
(* Bounds of the model.                                                    *)
(***************************************************************************)
\* the largest image width the configurations use
MaxWidth == 11
\* how many workers may panic in one render
MaxFailures == 1
\* the longest HittableList
MaxObjects == 2

(***************************************************************************)
(* Sphere, Intersection and HittableList (src/raycasting.rs)               *)
(***************************************************************************)
\* Sphere::new stores its arguments as they are
SphereNew(pos, rad, m) == [center |-> pos, radius |-> rad, mat |-> m]

\* Intersection::new(); the material is a Metal of fuzz 0, material id 0
IntersectionNew ==
    [time |-> QInt(0), position |-> VZero, norm |-> VZero, mat |-> 0,
     front_face |-> FALSE]

RayNew(orig, dir) == [orig |-> orig, dir |-> dir]

\* Ray::at
At(r, t) == VAdd(r.orig, VScale(r.dir, t))

\* a set_face_normal that sets the flag and keeps the normal
SetFaceNormalKeep(i, r, outward_norm) ==
    [i EXCEPT !.front_face = QLt(Dot(r.dir, outward_norm), QInt(0))]

\* Intersection::set_face_normal
SetFaceNormal(i, r, outward_norm) ==
    LET ff == QLt(Dot(r.dir, outward_norm), QInt(0))
    IN [i EXCEPT !.front_face = ff,
                 !.norm = IF ~ff THEN VNeg(outward_norm) ELSE i.norm]

\* Sphere::hit, `(a, h, c)` from `oc = self.center - r.orig`
Quadratic(oc, dir, radius) ==
    [a |-> Dot(dir, dir), h |-> Dot(dir, oc),
     c |-> QSub(Dot(oc, oc), QMul(radius, radius))]

HitCoeffs(s, r) == Quadratic(VSub(s.center, r.orig), r.dir, s.radius)

\* `let discriminant = h * h - a * c`
Discriminant(k) == QSub(QMul(k.h, k.h), QMul(k.a, k.c))

\* the closed-interval test `time < start || time > end`
OutOfRangeClosed(time, range) == QLt(time, range.start) \/ QLt(range.end, time)

\* `time <= t_range.start || time >= t_range.end`
OutOfRange(time, range) == QLe(time, range.start) \/ QLe(range.end, time)

\* Sphere::hit once the time is accepted: fill the record
HitRecordAt(s, r, i, time, pos) ==
    [SetFaceNormal([i EXCEPT !.time = time, !.position = pos,
                             !.norm = VDivS(VSub(pos, s.center), s.radius)],
                   r, VDivS(VSub(pos, s.center), s.radius))
       EXCEPT !.mat = s.mat]

\* Sphere::hit from the two candidate times on
HitRoots(s, r, range, i, t1, t2) ==
    IF OutOfRange(t1, range)
    THEN IF OutOfRange(t2, range)
         THEN [hit |-> FALSE, rec |-> i]
         ELSE [hit |-> TRUE, rec |-> HitRecordAt(s, r, i, t2, At(r, t2))]
    ELSE [hit |-> TRUE, rec |-> HitRecordAt(s, r, i, t1, At(r, t1))]

\* Sphere::hit from `let sqrtd = discriminant.sqrt()` on
HitSqrt(s, r, range, i, k, sqrtd) ==
    HitRoots(s, r, range, i, QDiv(QSub(k.h, sqrtd), k.a), QDiv(QAdd(k.h, sqrtd), k.a))

\* Sphere::hit from the discriminant on
HitQuadratic(s, r, range, i, k, discriminant) ==
    IF QLt(discriminant, QInt(0))
    THEN [hit |-> FALSE, rec |-> i]
    ELSE HitSqrt(s, r, range, i, k, QSqrt(discriminant))

HitWith(s, r, range, i, k) == HitQuadratic(s, r, range, i, k, Discriminant(k))

\* <Sphere as Hittable>::hit: [hit, rec], rec the record after the call
SphereHit(s, r, range, i) == HitWith(s, r, range, i, HitCoeffs(s, r))

\* <HittableList as Hittable>::hit from the k-th object on, with the running
\* `hit_anything` and `range` (the clone of t_range): [hit, rec, range]
RECURSIVE ListHitFrom(_, _, _, _, _, _)
RECURSIVE ListHitStep(_, _, _, _, _, _)

\* a loop body that forgets `range.end = intersection.time`
ListHitStepWide(objects, k, r, range, hit_anything, o) ==
    ListHitFrom(objects, k + 1, r, range, o.rec, hit_anything \/ o.hit)

\* the loop body, o the outcome of `object.hit(r, &range, intersection)`
ListHitStep(objects, k, r, range, hit_anything, o) ==
    IF o.hit
    THEN ListHitFrom(objects, k + 1, r, [range EXCEPT !.end = o.rec.time], o.rec, TRUE)
    ELSE ListHitFrom(objects, k + 1, r, range, o.rec, hit_anything)

ListHitFrom(objects, k, r, range, i, hit_anything) ==
    IF k > Len(objects)
    THEN [hit |-> hit_anything, rec |-> i, range |-> range]
    ELSE ListHitStep(objects, k, r, range, hit_anything,
                     SphereHit(objects[k], r, range, i))

ListHit(objects, r, range, i) == ListHitFrom(objects, 1, r, range, i, FALSE)

(***************************************************************************)
(* Materials (src/materials.rs)                                            *)
(***************************************************************************)
\* Metal::new: `fuzz: if fuzz < 1.0 {fuzz} else {1.0}`
MetalNew(albedo, fuzz) ==
    [kind |-> "metal", albedo |-> albedo,
     fuzz |-> IF QLt(fuzz, QInt(1)) THEN fuzz ELSE QInt(1)]

\* Dielectric::new
DielectricNew(refractive_index) ==
    [kind |-> "dielectric", refractive_index |-> refractive_index]

\* `r0 + (1.0 - r0) * (1.0 - cos).powi(5)`
Schlick(r0, cos) ==
    QAdd(r0, QMul(QSub(QInt(1), r0), QPowi(QSub(QInt(1), cos), 5)))

\* Dielectric::reflectance
Reflectance(cos, refractive_index) ==
    Schlick(QPowi(QDiv(QSub(QInt(1), refractive_index),
                       QAdd(QInt(1), refractive_index)), 2), cos)

\* reflect: `vec - 2.0 * dot(*vec, *norm) * norm`
Reflect(vec, norm) ==
    VSub(vec, VScale(norm, QMul(QInt(2), Dot(vec, norm))))

\* a refract whose parallel part points along the normal
RefractJoinOutward(norm, r_out_perp) ==
    VAdd(VScale(norm, QSqrt(QAbs(QSub(QInt(1), Magnitude2(r_out_perp))))), r_out_perp)

\* refract, `r_out_parallel + r_out_perp` from r_out_perp on
RefractJoin(norm, r_out_perp) ==
    VAdd(VScale(norm, QNeg(QSqrt(QAbs(QSub(QInt(1), Magnitude2(r_out_perp)))))),
         r_out_perp)

\* refract: `r_out_perp = etai_over_etat * (vec + cos_theta * norm)`
RefractPerp(vec, norm, etai_over_etat) ==
    VScale(VAdd(vec, VScale(norm, QMin(QInt(1), Dot(VNeg(vec), norm)))),
           etai_over_etat)

Refract(vec, norm, etai_over_etat) ==
    RefractJoin(norm, RefractPerp(vec, norm, etai_over_etat))

\* `let ri = if rec.front_face {1.0 / self.refractive_index} else {..}`
RefractionRatio(m, i) ==
    IF i.front_face THEN QDiv(QInt(1), m.refractive_index) ELSE m.refractive_index

\* `f64::min(dot(-unit_direction, rec.norm), 1.0)`
CosTheta(unit_direction, i) == QMin(Dot(VNeg(unit_direction), i.norm), QInt(1))

\* `(1.0 - cos_theta.powi(2)).sqrt()`
SinTheta(cos_theta) == QSqrt(QSub(QInt(1), QPowi(cos_theta, 2)))

\* `ri * sin_theta > 1.0 || reflectance(cos_theta, ri) > rng.random_double()`
MustReflect(ri, cos_theta, rnd) ==
    \/ QLt(QInt(1), QMul(ri, SinTheta(cos_theta)))
    \/ QLt(rnd, Reflectance(cos_theta, ri))

\* Dielectric::scatter from cos_theta on
ScatterDirection(i, rnd, ri, unit_direction, cos_theta) ==
    IF MustReflect(ri, cos_theta, rnd)
    THEN Reflect(unit_direction, i.norm)
    ELSE Refract(unit_direction, i.norm, ri)

\* Dielectric::scatter from unit_direction on
ScatterFrom(i, rnd, ri, unit_direction) ==
    [ray |-> RayNew(i.position,
                    ScatterDirection(i, rnd, ri, unit_direction,
                                     CosTheta(unit_direction, i))),
     attenuation |-> Vec3(1, 1, 1)]

\* <Dielectric as Material>::scatter: Some((scattered, attenuation))
DielectricScatter(m, r_in, i, rnd) ==
    ScatterFrom(i, rnd, RefractionRatio(m, i), Normalize(r_in.dir))

(***************************************************************************)
(* Camera (src/camera.rs)                                                  *)
(***************************************************************************)
\* the number of stripes and of worker threads: `iw / 10`, `for i in 0..10`
NumStripes == 10

\* image_height is `(image_width as f64 / aspect_ratio) as u32`, at least 1
Initialize(c) ==
    LET h0 == c.image_width \div c.aspect_ratio
        h  == IF h0 < 1 THEN 1 ELSE h0
    IN [image_width         |-> c.image_width,
        aspect_ratio        |-> c.aspect_ratio,
        samples_per_pixel   |-> c.samples_per_pixel,
        focus_dist          |-> c.focus_dist,
        image_height        |-> h,
        \* 1.0 / samples as f64: +infinity for zero samples
        pixel_samples_scale |-> <<1, c.samples_per_pixel>>]

\* the camera configurations main() may set before initialize(), with the
\* radius of the sphere it puts in the world: one whose stripes hold pixels,
\* and narrow ones with a zero sample count, focus distance or radius
Configs ==
    { [image_width |-> MaxWidth, aspect_ratio |-> 16, samples_per_pixel |-> 1,
       focus_dist |-> 10, radius |-> 1] }
    \cup
    { [image_width |-> 9, aspect_ratio |-> 2, samples_per_pixel |-> c[1],
       focus_dist |-> c[2], radius |-> c[3]] :
         c \in { <<1, 10, 1>>, <<0, 10, 1>>, <<1, 0, 1>>, <<1, 10, 0>> } }

\* the pixel a worker sends for (x, y): to_rgb(sample_scale * pixel_color).
\* With no samples the sum is 0.0 and 0.0 * inf is NaN, which casts to 0;
\* otherwise the model fixes one sampled value per pixel.
Shade(cam, x, y) ==
    IF cam.samples_per_pixel = 0 THEN 0 ELSE 1 + ((x + 2 * y) % 255)

\* `let step = iw / 10`
Step(cam) == cam.image_width \div NumStripes

\* stripes that share their boundary column
StripeOfInclusive(cam, i) == [curr |-> i * Step(cam), next |-> (i + 1) * Step(cam) + 1]

\* `let (curr, next) = (i * step, (i + 1) * step)`
StripeOf(cam, i) == [curr |-> i * Step(cam), next |-> (i + 1) * Step(cam)]

\* image::RgbImage::new(w, h): every pixel zero
RgbImageNew(w, h) == [p \in (0..(w - 1)) \X (0..(h - 1)) |-> 0]

Spawned == DOMAIN workers
Running(w) == w \in Spawned /\ workers[w].st = "run"
Failed == { w \in Spawned : workers[w].st = "panicked" }

\* the channel is disconnected when every Sender has been dropped: the
\* original `tx` and the clone `tx1` each live worker closure owns
Disconnected == ~tx /\ \A w \in Spawned : ~Running(w)

\* a loop over try_recv() would end as soon as the channel is empty
RecvLoopEndsWhenEmpty == chan = EmptyBag

\* `for (rx, ry, rp) in rx` ends when recv() fails: the channel is empty
\* and disconnected
RecvLoopEnds == chan = EmptyBag /\ Disconnected

\* ImageBuffer::put_pixel panics on coordinates outside the image
InBounds(x, y) == <<x, y>> \in DOMAIN imgbuf

\* `imgbuf.put_pixel(rx, ry, rp)`
PutPixel(buf, x, y, p) == [buf EXCEPT ![<<x, y>>] = p]

\* the variables of the other specifications, at rest
IdleHit ==
    /\ ray = RayNew(VZero, VZero)
    /\ t_range = [start |-> QInt(0), end |-> QInf]
    /\ rec = IntersectionNew
    /\ prev_rec = IntersectionNew
    /\ res = [op |-> "none"]

IdleMaterial ==
    /\ mat = [kind |-> "none"]
    /\ draw = QInt(0)
    /\ scattered = "none"

IdleRender ==
    /\ camera = Initialize([image_width |-> 1, aspect_ratio |-> 1,
                            samples_per_pixel |-> 1, focus_dist |-> 1])
    /\ main = [pc |-> "idle", i |-> 0]
    /\ workers = << >>
    /\ tx = FALSE
    /\ chan = EmptyBag
    /\ imgbuf = RgbImageNew(1, 1)
    /\ sends = EmptyBag
    /\ saved = [written |-> FALSE, image |-> << >>]

InitRender ==
    /\ \E c \in Configs :
         /\ camera = Initialize(c)
         /\ world = <<SphereNew(VZero, QInt(c.radius), 0)>>
    /\ main = [pc |-> "spawn", i |-> 0]
    /\ workers = << >>
    /\ tx = TRUE
    /\ chan = EmptyBag
    /\ imgbuf = RgbImageNew(camera.image_width, camera.image_height)
    /\ sends = EmptyBag
    /\ saved = [written |-> FALSE, image |-> << >>]
    /\ IdleHit
    /\ IdleMaterial

\* one iteration of `for i in 0..10`: clone the sender, spawn the worker
Spawn ==
    /\ main.pc = "spawn"
    /\ main.i < NumStripes
    /\ workers' = [w \in Spawned \cup {main.i} |->
                     IF w = main.i
                     THEN [st |-> "run",
                           curr |-> StripeOf(camera, main.i).curr,
                           next |-> StripeOf(camera, main.i).next,
                           x |-> StripeOf(camera, main.i).curr, y |-> 0]
                     ELSE workers[w]]
    /\ main' = [main EXCEPT !.i = main.i + 1]
    /\ UNCHANGED <<camera, world, tx, chan, imgbuf, sends, saved, hit_vars, mat_vars>>

\* the loop ends but the original sender stays alive through the receive loop
DropTxKept ==
    /\ main.pc = "spawn"
    /\ main.i = NumStripes
    /\ tx' = tx
    /\ main' = [main EXCEPT !.pc = "collect"]
    /\ UNCHANGED <<camera, world, workers, chan, imgbuf, sends, saved, hit_vars, mat_vars>>

\* `drop(tx)` after the loop
DropTx ==
    /\ main.pc = "spawn"
    /\ main.i = NumStripes
    /\ tx' = FALSE
    /\ main' = [main EXCEPT !.pc = "collect"]
    /\ UNCHANGED <<camera, world, workers, chan, imgbuf, sends, saved, hit_vars, mat_vars>>

\* one iteration of the worker's `for x in curr..next { for y in 0..ih {`:
\* sample the pixel and send (x, y, rgb). After its last send the worker
\* touches nothing shared but the sender it drops on return, so the return
\* is taken in the same step.
RenderPixel(w) ==
    /\ Running(w)
    /\ workers[w].x < workers[w].next
    /\ LET me == workers[w]
           p  == Shade(camera, me.x, me.y)
           ny == IF me.y + 1 < camera.image_height THEN me.y + 1 ELSE 0
           nx == IF me.y + 1 < camera.image_height THEN me.x ELSE me.x + 1
       IN /\ chan' = chan (+) SetToBag({<<me.x, me.y, p>>})
          /\ sends' = sends (+) SetToBag({<<w, me.x, me.y, p>>})
          /\ workers' = [workers EXCEPT ![w].x = nx, ![w].y = ny,
                                         ![w].st = IF nx < me.next THEN "run" ELSE "done"]
    /\ UNCHANGED <<camera, world, main, tx, imgbuf, saved, hit_vars, mat_vars>>

\* a worker whose stripe is empty: the closure returns and drops tx1
Finish(w) ==
    /\ Running(w)
    /\ workers[w].x >= workers[w].next
    /\ workers' = [workers EXCEPT ![w].st = "done"]
    /\ UNCHANGED <<camera, world, main, tx, chan, imgbuf, sends, saved, hit_vars, mat_vars>>

\* the worker panics (Rand::new, the sampling): the thread unwinds and
\* drops tx1; nothing joins the thread
Panic(w) ==
    /\ Running(w)
    /\ Cardinality(Failed) < MaxFailures
    /\ workers' = [workers EXCEPT ![w].st = "panicked"]
    /\ UNCHANGED <<camera, world, main, tx, chan, imgbuf, sends, saved, hit_vars, mat_vars>>

\* one iteration of `for (rx, ry, rp) in rx`: receive and put_pixel
Collect ==
    /\ main.pc = "collect"
    /\ \E m \in BagToSet(chan) :
         /\ chan' = chan (-) SetToBag({m})
         /\ IF InBounds(m[1], m[2])
            THEN /\ imgbuf' = PutPixel(imgbuf, m[1], m[2], m[3])
                 /\ main' = main
            ELSE /\ imgbuf' = imgbuf
                 /\ main' = [main EXCEPT !.pc = "panicked"]
    /\ UNCHANGED <<camera, world, workers, tx, sends, saved, hit_vars, mat_vars>>

\* the receive loop ends and `imgbuf.save(..).unwrap()` writes the file
Save ==
    /\ main.pc = "collect"
    /\ RecvLoopEnds
    /\ saved' = [written |-> TRUE, image |-> imgbuf]
    /\ main' = [main EXCEPT !.pc = "done"]
    /\ UNCHANGED <<camera, world, workers, tx, chan, imgbuf, sends, hit_vars, mat_vars>>

Next ==
    \/ Spawn
    \/ DropTx
    \/ \E w \in 0..(NumStripes - 1) : RenderPixel(w)
    \/ \E w \in 0..(NumStripes - 1) : Finish(w)
    \/ \E w \in 0..(NumStripes - 1) : Panic(w)
    \/ Collect
    \/ Save

Spec == InitRender /\ [][Next]_vars

(***************************************************************************)
(* Properties of render_parallel                                           *)
(***************************************************************************)
Columns == 0..(camera.image_width - 1)
Dispatched == main.pc # "idle" /\ main.i = NumStripes
\* the workers whose stripe `curr..next` holds column x
Owners(x) == { w \in Spawned : workers[w].curr <= x /\ x < workers[w].next }

\* C1: once the 10 stripes are dispatched, every column 0..W-1 of the image
\* lies in the stripe of exactly one worker.
C1_StripesCoverEveryColumn ==
    Dispatched => \A x \in Columns : Cardinality(Owners(x)) = 1

\* C2: an image file is written only by a render in which no worker
\* panicked.
C2_NoSaveAfterWorkerFailure ==
    saved.written => Failed = {}

\* the pixel the sends put at coordinate p, 0 where nothing was sent
Delivered(p) ==
    IF \E e \in BagToSet(sends) : <<e[2], e[3]>> = p
    THEN (CHOOSE e \in BagToSet(sends) : <<e[2], e[3]>> = p)[4]
    ELSE 0

\* C3: when the image is saved, all 10 workers have been spawned and have
\* ended, the channel is empty, and every pixel that was sent is in the
\* saved buffer.
C3_SaveAfterWorkersAndDrain ==
    main.pc = "done" =>
        /\ \A w \in 0..(NumStripes - 1) : w \in Spawned /\ ~Running(w)
        /\ chan = EmptyBag
        /\ \A e \in BagToSet(sends) :
             <<e[2], e[3]>> \in DOMAIN saved.image /\ saved.image[<<e[2], e[3]>>] = e[4]

C3_Witness ==
    /\ main.pc = "done"
    /\ sends # EmptyBag
    /\ Failed = {}

\* every coordinate was sent at most once, by one worker
SentOnce ==
    \A e \in BagToSet(sends) :
        /\ CopiesIn(e, sends) = 1
        /\ \A f \in BagToSet(sends) : (e[2] = f[2] /\ e[3] = f[3]) => e = f

\* the buffer is a function of what was sent and received, not of the order
BufferOfSends ==
    /\ \A p \in DOMAIN imgbuf : imgbuf[p] = 0 \/ imgbuf[p] = Delivered(p)
    /\ main.pc = "done" => \A p \in DOMAIN saved.image : saved.image[p] = Delivered(p)

\* a step that changes the buffer is the collector's: it takes one message
\* from the channel and writes that message's pixel at its coordinates
CollectorWrites ==
    imgbuf' # imgbuf =>
        /\ main.pc = "collect"
        /\ workers' = workers
        /\ \E m \in BagToSet(chan) :
             /\ chan' = chan (-) SetToBag({m})
             /\ imgbuf' = [imgbuf EXCEPT ![<<m[1], m[2]>>] = m[3]]

\* C4: only the collector writes the image buffer, every coordinate is sent
\* at most once and by a single worker, and the buffer holds, at each
\* coordinate, the pixel sent for it, whatever the order of arrival.
C4_SingleWriterOrderIndependent ==
    [](SentOnce /\ BufferOfSends) /\ [][CollectorWrites]_vars

\* an image with two different rendered pixels has been saved
C4_Witness ==
    /\ main.pc = "done"
    /\ \E p, q \in DOMAIN saved.image :
         saved.image[p] # 0 /\ saved.image[q] # 0 /\ saved.image[p] # saved.image[q]

InvalidConfig ==
    \/ camera.image_width = 0
    \/ camera.image_height = 0
    \/ camera.samples_per_pixel = 0
    \/ camera.focus_dist <= 0
    \/ \E k \in 1..Len(world) : QLe(world[k].radius, QInt(0))

\* C5: with an invalid configuration no worker is started and no image is
\* written.
C5_InvalidConfigRejected ==
    (main.pc # "idle" /\ InvalidConfig) => (Spawned = {} /\ ~saved.written)

(***************************************************************************)
(* Progress of render_parallel under fair scheduling                       *)
(***************************************************************************)
\* a step of the render that is not a panic: the main thread spawns, drops
\* its sender, receives or saves, or a worker sends a pixel or returns
Progress ==
    \/ Spawn
    \/ DropTx
    \/ \E w \in 0..(NumStripes - 1) : RenderPixel(w) \/ Finish(w)
    \/ Collect
    \/ Save

\* The main thread and the 10 workers are OS threads; every pixel a worker
\* samples terminates (ray_color recurses at most max_depth times).  The
\* scheduler is only required to run some thread that can take a step: the
\* render never stops while a send, a return, a receive or the save is
\* possible.  A panic is never required to happen.  Scheduling that is fair
\* to each thread separately satisfies this condition too, since a render
\* takes finitely many steps.
SpecFair == Spec /\ WF_vars(Progress)

\* all 10 workers were spawned and each has returned or panicked
AllWorkersEnded ==
    \A w \in 0..(NumStripes - 1) : w \in Spawned /\ ~Running(w)

\* the collector is not blocked: a message is waiting, or recv() fails and
\* the loop ends
CollectorCanStep == ENABLED (Collect \/ Save)

\* C11: under fair scheduling every render reaches the save.  Once the
\* collector is in its receive loop and all 10 workers have ended, normally
\* or by a panic, every sender is dropped (the dispatcher's included), so
\* the collector is never blocked: it receives a waiting message or leaves
\* the loop.
C11_RenderReachesSave ==
    /\ <>(main.pc = "done" /\ saved.written)
    /\ []((main.pc = "collect" /\ AllWorkersEnded) =>
             (Disconnected /\ CollectorCanStep))

\* the save was reached although a worker panicked while others delivered
C11_Witness ==
    /\ main.pc = "done"
    /\ saved.written
    /\ Failed # {}
    /\ sends # EmptyBag

(***************************************************************************)
(* Hits on bounded rays and worlds                                         *)
(***************************************************************************)
Origins == { Vec3(0, 0, 0), Vec3(-3, 0, 0), Vec3(-3, 1, 0), Vec3(0, 5, 0) }
Directions == { Vec3(1, 0, 0), Vec3(0, 0, -2), Vec3(0, -1, 0), Vec3(3, 4, 0),
                Vec3(-1, 0, 0) }
Rays == { RayNew(o, d) : o \in Origins, d \in Directions }

Spheres == { SphereNew(Vec3(0, 0, 0), QInt(1), 1), SphereNew(Vec3(0, 0, 0), QInt(2), 2),
             SphereNew(Vec3(4, 0, 0), QInt(1), 3), SphereNew(Vec3(3, 4, 0), QInt(5), 4) }

Worlds == UNION { [1..n -> Spheres] : n \in 0..MaxObjects }

Ranges == { [start |-> s, end |-> e] :
              s \in { QInt(0), Q(1, 1000), QInt(2) }, e \in { QInt(3), QInf } }

\* every square root Sphere::hit takes on the ray is rational
ExactRoot(d) == QLt(d, QInt(0)) \/ QIsSquare(d)
ExactHit(s, r) == ExactRoot(Discriminant(HitCoeffs(s, r)))

InitHit ==
    /\ ray \in Rays
    /\ world \in Worlds
    /\ \A k \in 1..Len(world) : ExactHit(world[k], ray)
    /\ t_range \in Ranges
    /\ rec = IntersectionNew
    /\ prev_rec = IntersectionNew
    /\ res = [op |-> "none"]
    /\ IdleRender
    /\ IdleMaterial

\* the caller runs world.objects[k].hit(&ray, &t_range, &mut rec)
CallSphereHit(k) ==
    /\ k \in 1..Len(world)
    /\ \E o \in {SphereHit(world[k], ray, t_range, rec)} :
          /\ rec' = o.rec
          /\ res' = [op |-> "sphere", k |-> k, hit |-> o.hit]
    /\ prev_rec' = rec
    /\ UNCHANGED <<ray, t_range, world, render_vars, mat_vars>>

\* the caller runs world.hit(&ray, &t_range, &mut rec)
CallListHit ==
    /\ \E o \in {ListHit(world, ray, t_range, rec)} :
          /\ rec' = o.rec
          /\ res' = [op |-> "list", hit |-> o.hit, range |-> o.range,
                      t_range |-> t_range]
    /\ prev_rec' = rec
    /\ UNCHANGED <<ray, t_range, world, render_vars, mat_vars>>

NextHit ==
    \/ \E k \in 1..MaxObjects : CallSphereHit(k)
    \/ CallListHit

SpecHit == InitHit /\ [][NextHit]_vars

(***************************************************************************)
(* Properties of Sphere::hit and HittableList::hit                         *)
(***************************************************************************)
\* t solves |O + tD - C|^2 = r^2, that is a t^2 - 2 h t + c = 0
IsRoot(k, t) ==
    QAdd(QSub(QMul(k.a, QMul(t, t)), QMul(QInt(2), QMul(k.h, t))), k.c) = QInt(0)

\* the times to look for roots at: the origin, direction, centre and radius
\* are integral, so a root is n/a with |n| <= |h| + sqrt(h^2 + a r^2)
RootSpan(s, k) == 2 * Abs(k.h[1]) + s.radius[1] * (ISqrt(k.a[1]) + 1)

RootCandidatesIn(k, span) == { Q(n, k.a[1]) : n \in (-span)..span }

RootCandidates(s, k) == RootCandidatesIn(k, RootSpan(s, k))

IntersectionsOf(s, k, range) ==
    { t \in RootCandidates(s, k) :
        IsRoot(k, t) /\ QLt(range.start, t) /\ QLt(t, range.end) }

\* the times at which the ray meets sphere s strictly inside the range
Intersections(s, r, range) == IntersectionsOf(s, HitCoeffs(s, r), range)

IsLeast(t, H) == t \in H /\ \A u \in H : QLe(t, u)

SphereHitMeets(H) ==
    /\ res.hit <=> H # {}
    /\ res.hit => IsLeast(rec.time, H)
    /\ res.hit => QLt(t_range.start, rec.time) /\ QLt(rec.time, t_range.end)
    /\ ~res.hit => rec = prev_rec

\* C10: Sphere::hit reports a hit exactly when the ray meets the sphere
\* strictly inside the interval, the reported time is then the least such
\* time, and on a miss the record is as it was.
C10_SphereHitNearestRootInRange ==
    res.op = "sphere" => SphereHitMeets(Intersections(world[res.k], ray, t_range))

\* a hit whose smaller root is outside the interval and whose larger is inside
C10_Witness ==
    /\ res.op = "sphere"
    /\ res.hit
    /\ \E t \in RootCandidates(world[res.k], HitCoeffs(world[res.k], ray)) :
         /\ IsRoot(HitCoeffs(world[res.k], ray), t)
         /\ QLt(t, rec.time)

FaceNormalOf(s, outward) ==
    /\ rec.front_face <=> QLt(Dot(ray.dir, outward), QInt(0))
    /\ QLe(Dot(ray.dir, rec.norm), QInt(0))
    /\ rec.norm = IF rec.front_face
                  THEN VDivS(outward, s.radius)
                  ELSE VNeg(VDivS(outward, s.radius))

\* C6: after a successful Sphere::hit, front_face is true exactly when the
\* ray direction and the outward normal (hit point minus centre) have a
\* negative dot product, the stored normal has a non-positive dot product
\* with the ray direction, and it is the outward unit normal for a front
\* face and its negation for a back face.
C6_FaceNormalAgainstRay ==
    (res.op = "sphere" /\ res.hit) =>
        FaceNormalOf(world[res.k], VSub(rec.position, world[res.k].center))

\* a back-face hit: the ray leaves the sphere
C6_Witness ==
    /\ res.op = "sphere"
    /\ res.hit
    /\ ~rec.front_face
    /\ QLt(Dot(ray.dir, rec.norm), QInt(0))

AllIntersections ==
    UNION { Intersections(world[k], ray, t_range) : k \in 1..Len(world) }

ListHitMeets(H) ==
    /\ res.hit <=> H # {}
    /\ res.hit => /\ IsLeast(rec.time, H)
                  /\ rec.position = At(ray, rec.time)
                  /\ \E k \in 1..Len(world) :
                       /\ rec.mat = world[k].mat
                       /\ rec.time \in Intersections(world[k], ray, t_range)
    /\ ~res.hit => rec = prev_rec /\ t_range = res.t_range

\* C7: HittableList::hit returns true exactly when some child meets the ray
\* strictly inside the interval; the record then holds the least such time
\* over all children, at a child that has it; when no child hits, the record
\* and the caller's interval are as they were.
C7_ListHitNearestOfAll ==
    res.op = "list" => ListHitMeets(AllIntersections)

\* the nearest hit is on the first child and a later child is hit farther
C7_Witness ==
    /\ res.op = "list"
    /\ res.hit
    /\ Len(world) >= 2
    /\ rec.mat = world[1].mat
    /\ \E t \in Intersections(world[2], ray, t_range) : QLt(rec.time, t)

(***************************************************************************)
(* Materials on bounded arguments                                          *)
(***************************************************************************)
FuzzArgs == { Q(-1, 2), QInt(0), Q(3, 10), QInt(1), Q(3, 2), QInt(2) }
Iors == { QInt(1), Q(3, 2) }
Draws == { QInt(0), Q(1, 10), Q(1, 2), Q(9, 10) }
InDirections == { Vec3(0, -1, 0), Vec3(3, -4, 0), Vec3(-3, -4, 0), Vec3(1, 0, 0),
                  Vec3(0, 0, -2), Vec3(4, 3, 0), Vec3(0, 2, 0) }
OutwardNormals == { Vec3(0, 1, 0), Vec3(1, 0, 0), Vec3(0, 0, 1),
                    <<Q(3, 5), Q(4, 5), QInt(0)>>, <<Q(-4, 5), Q(3, 5), QInt(0)>> }

\* the record a hit at the origin with outward normal n leaves
RecordOf(r, n) ==
    SetFaceNormal([IntersectionNew EXCEPT !.norm = n, !.time = QInt(1)], r, n)

\* every square root Dielectric::scatter takes on the arguments is rational
ExactPerp(r_out_perp) == QIsSquare(QAbs(QSub(QInt(1), Magnitude2(r_out_perp))))

ExactCos(i, rnd, ri, unit_direction, cos_theta) ==
    /\ QIsSquare(QSub(QInt(1), QPowi(cos_theta, 2)))
    /\ MustReflect(ri, cos_theta, rnd)
         \/ ExactPerp(RefractPerp(unit_direction, i.norm, ri))

ExactUnit(i, rnd, ri, unit_direction) ==
    ExactCos(i, rnd, ri, unit_direction, CosTheta(unit_direction, i))

ExactScatter(m, r_in, i, rnd) ==
    /\ QIsSquare(Magnitude2(r_in.dir))
    /\ ExactUnit(i, rnd, RefractionRatio(m, i), Normalize(r_in.dir))

InitMaterial ==
    /\ \E d \in InDirections, n \in OutwardNormals :
         /\ ray = RayNew(VZero, d)
         /\ rec = RecordOf(RayNew(VZero, d), n)
    /\ draw \in Draws
    /\ mat = [kind |-> "none"]
    /\ scattered = "none"
    /\ prev_rec = rec
    /\ t_range = [start |-> QInt(0), end |-> QInf]
    /\ res = [op |-> "none"]
    /\ world = << >>
    /\ IdleRender

\* main() builds a Metal
CallMetalNew(fuzz) ==
    /\ mat.kind = "none"
    /\ mat' = MetalNew(Vec3(1, 1, 1), fuzz)
    /\ res' = [op |-> "metal_new", fuzz |-> fuzz]
    /\ UNCHANGED <<ray, t_range, rec, prev_rec, draw, scattered, world, render_vars>>

\* main() builds a Dielectric
CallDielectricNew(ior) ==
    /\ mat.kind = "none"
    /\ mat' = DielectricNew(ior)
    /\ res' = [op |-> "dielectric_new", ior |-> ior]
    /\ UNCHANGED <<ray, t_range, rec, prev_rec, draw, scattered, world, render_vars>>

\* ray_color runs rec.mat.scatter(r, &rec, rng) on a Dielectric
CallScatter ==
    /\ mat.kind = "dielectric"
    /\ ExactScatter(mat, ray, rec, draw)
    /\ scattered' = DielectricScatter(mat, ray, rec, draw)
    /\ res' = [op |-> "scatter"]
    /\ UNCHANGED <<ray, t_range, rec, prev_rec, draw, mat, world, render_vars>>

NextMaterial ==
    \/ \E f \in FuzzArgs : CallMetalNew(f)
    \/ \E ior \in Iors : CallDielectricNew(ior)
    \/ CallScatter

SpecMaterial == InitMaterial /\ [][NextMaterial]_vars

(***************************************************************************)
(* Properties of Metal::new and Dielectric::scatter                        *)
(***************************************************************************)
\* u is a positive multiple of v
Colinear(u, v) == Cross(u, v) = VZero /\ QLt(QInt(0), Dot(u, v))

UnitIor == res.op = "scatter" /\ mat.refractive_index = QInt(1)

\* C8 as stated: with ior = 1.0 the scattered ray is colinear with the
\* incoming ray, whatever the incidence angle, the face and the random draw.
C8_UnitIorAlwaysColinear ==
    UnitIor => Colinear(scattered.ray.dir, ray.dir)

\* the Schlick reflectance at ior = 1.0: r0 = 0, so (1 - cos)^5
UnitReflectance(unit_direction) ==
    QPowi(QSub(QInt(1), QMin(Dot(VNeg(unit_direction), rec.norm), QInt(1))), 5)

UnitIorScatter(unit_direction, reflectance) ==
    /\ QLe(reflectance, draw) => Colinear(scattered.ray.dir, ray.dir)
    /\ QLt(draw, reflectance) =>
         scattered.ray.dir =
             VSub(unit_direction,
                  VScale(rec.norm, QMul(QInt(2), Dot(unit_direction, rec.norm))))

UnitIorFrom(unit_direction) ==
    UnitIorScatter(unit_direction, UnitReflectance(unit_direction))

\* C8 amended: with ior = 1.0 the scattered ray is colinear with the incoming
\* ray whenever the random draw is at least the Schlick reflectance
\* (1 - cos)^5; for a smaller draw it is the mirror reflection.
C8_UnitIorColinearUnlessReflected ==
    UnitIor => UnitIorFrom(Normalize(ray.dir))

\* an oblique ray that is refracted at ior = 1.0
C8_Witness ==
    /\ UnitIor
    /\ QLe(UnitReflectance(Normalize(ray.dir)), draw)
    /\ QLt(QInt(0), UnitReflectance(Normalize(ray.dir)))
    /\ QLt(UnitReflectance(Normalize(ray.dir)), QInt(1))

\* C9: the fuzz Metal::new stores lies in [0, 1]: 1 for an argument above 1,
\* the argument itself when it is in [0, 1], and 0 for a negative argument.
C9_FuzzClampedToUnitInterval ==
    res.op = "metal_new" =>
        /\ QLe(QInt(0), mat.fuzz) /\ QLe(mat.fuzz, QInt(1))
        /\ QLt(QInt(1), res.fuzz) => mat.fuzz = QInt(1)
        /\ (QLe(QInt(0), res.fuzz) /\ QLe(res.fuzz, QInt(1))) => mat.fuzz = res.fuzz
        /\ QLt(res.fuzz, QInt(0)) => mat.fuzz = QInt(0)

====
